---- MODULE Spec2Model ----
(***************************************************************************)
(* Pet registry: the Pet lifecycle methods (change_status, request_action, *)
(* activate, deactivate) and the query layer (PetQuerySet, KindManager) of *)
(* src/pets/meupet/models.py.                                              *)
(*                                                                         *)
(* A Pet row lives in storage (db).  A request handler works on a Python   *)
(* instance loaded from the row (mem); save() writes every column of the   *)
(* instance back to the row.  Timestamps are in days.  Text is a sequence  *)
(* of one-character strings, so that parsing and slugifying are computed.  *)
(***************************************************************************)
EXTENDS Integers, Sequences, FiniteSets, TLC

\* ---------------------------------------------------------------- bounds
\* The clock runs from day 0 to day MaxTime.
MaxTime == 2
\* DAYS_TO_STALE_REGISTER ranges over 0..MaxStale in the query properties.
MaxStale == 2

\* ---------------------------------------------------------------- values
\* Pet.MISSING, Pet.FOR_ADOPTION, Pet.ADOPTED, Pet.FOUND
MISSING == "MI"
FOR_ADOPTION == "FA"
ADOPTED == "AD"
FOUND == "FO"
PET_STATUS == {MISSING, FOR_ADOPTION, ADOPTED, FOUND}

\* A nullable column holds <<>> (NULL) or <<v>>.
Null == <<>>
Some(v) == <<v>>

\* request_key = '' (blank) or a sha1 hexdigest.
NoKey == <<>>

\* The rows of the Pet table the lifecycle runs on, and the Python instances
\* a sequential caller holds.
Pets == {"p1"}
Insts == {"h1"}
NoPet == "none"

\* crypto.get_random_string(5): the random seeds that can be drawn.
Seeds == {"s1", "s2"}

\* hashlib.sha1((seed + name).encode('utf-8')).hexdigest(): 40 hex digits,
\* taken as injective in (seed, name); never the empty string.
Sha1Hex(seed, name) == <<seed, name>>

VARIABLES
    now,    \* timezone.now(), in days
    db,     \* the Pet table: row id -> columns
    mem,    \* the loaded Python instances: handle -> attributes
    hist,   \* the last call: which method, on what, and what it did
    res,    \* the last query: which method, its argument and its result
    pc      \* where each handle's request handler stands

vars == <<now, db, mem, hist, res, pc>>

\* ------------------------------------------------------------- Pet rows
\* The columns of a Pet row that the lifecycle and the queries read.
Columns == {"name", "kind", "status", "published", "request_sent",
            "request_key", "active", "modified"}

\* Pet(...) as created: the field defaults of the model.
NewPet(name, kind, status, published, t) ==
    [name |-> name, kind |-> kind, status |-> status, published |-> published,
     request_sent |-> Null, request_key |-> NoKey, active |-> TRUE,
     modified |-> t]

\* A handle that holds no instance.
NoInst ==
    [pet |-> NoPet, name |-> NoPet, kind |-> Null, status |-> MISSING,
     published |-> FALSE, request_sent |-> Null, request_key |-> NoKey,
     active |-> TRUE, modified |-> 0, update_modified |-> TRUE]

\* Pet.objects.get(pk=p): a fresh instance with the row's columns; a fresh
\* instance has no update_modified attribute, which reads as True.
FromDb(p, row) ==
    [pet |-> p, name |-> row.name, kind |-> row.kind, status |-> row.status,
     published |-> row.published, request_sent |-> row.request_sent,
     request_key |-> row.request_key, active |-> row.active,
     modified |-> row.modified, update_modified |-> TRUE]

\* The row an instance writes: every column (save() has no update_fields).
\* Variant for the sensitivity check: request_sent is left out of the UPDATE.
RowOfKeepingSent(m) ==
    [c \in Columns |-> IF c = "request_sent" THEN db[m.pet][c] ELSE m[c]]

RowOf(m) == [c \in Columns |-> m[c]]

\* TimeStampedModel.save(update_modified=...): the flag is stored on the
\* instance (self.update_modified = kwargs.pop('update_modified',
\* getattr(self, 'update_modified', True))), so a save() without the keyword
\* reuses the flag an earlier save(update_modified=False) left behind.
\* ModificationDateTimeField.pre_save then returns the instance's own
\* modified value when the flag is False and sets it to now() otherwise.
SaveFlag(m, keepModified) == IF keepModified THEN FALSE ELSE m.update_modified

Saved(m, keepModified, t) ==
    LET flag == SaveFlag(m, keepModified)
    IN  [m EXCEPT !.update_modified = flag,
                  !.modified = IF flag THEN t ELSE m.modified]

\* The record of a call kept for the properties: the method, the handle and
\* row, the notification's answer, whether the same method ran on the same
\* handle just before, and the effects of the call in program order.
Call(op, h, p, ok, trace) ==
    [op |-> op, h |-> h, p |-> p, ok |-> ok,
     rep |-> (hist.op = op /\ hist.h = h), trace |-> trace]

NoCall == [op |-> "none", h |-> NoPet, p |-> NoPet, ok |-> TRUE,
           rep |-> FALSE, trace |-> <<>>]

Loaded(h) == mem[h].pet # NoPet

\* The record of a query kept for the properties.
Query(q, arg, out) == [q |-> q, arg |-> arg, out |-> out]

NoQuery == Query("none", <<>>, {})

\* ------------------------------------------------------------------ text
\* The characters that occur, in code point order.
Alphabet == <<" ", "+", "-", "0", "1", "2", "3", "4", "5", "6", "7", "8", "9",
              "C", "D", "a", "c", "d", "g", "o", "t">>
Digits == <<"0", "1", "2", "3", "4", "5", "6", "7", "8", "9">>
IsDigit(c) == \E i \in 1..Len(Digits) : Digits[i] = c
DigitVal(c) == (CHOOSE i \in 1..Len(Digits) : Digits[i] = c) - 1
IsSpace(c) == c = " "

\* str.strip()
RECURSIVE LStrip(_)
LStrip(s) == IF s # <<>> /\ IsSpace(Head(s)) THEN LStrip(Tail(s)) ELSE s
RECURSIVE RStrip(_)
RStrip(s) ==
    IF s # <<>> /\ IsSpace(s[Len(s)]) THEN RStrip(SubSeq(s, 1, Len(s) - 1)) ELSE s
Strip(s) == RStrip(LStrip(s))

\* int(kind): surrounding whitespace is dropped, one sign is allowed, and the
\* rest must be one or more decimal digits; anything else is a ValueError.
Unsigned(s) ==
    IF s # <<>> /\ Head(s) \in {"+", "-"} THEN Tail(s) ELSE s
IsInt(s) ==
    LET d == Unsigned(Strip(s))
    IN  d # <<>> /\ \A i \in 1..Len(d) : IsDigit(d[i])
RECURSIVE DigitsVal(_)
DigitsVal(d) ==
    IF d = <<>> THEN 0
    ELSE 10 * DigitsVal(SubSeq(d, 1, Len(d) - 1)) + DigitVal(d[Len(d)])
IntOf(s) ==
    LET t == Strip(s)
        v == DigitsVal(Unsigned(t))
    IN  IF Head(t) = "-" THEN 0 - v ELSE v

\* slugify(): drop what is not a letter, digit, space or hyphen, strip,
\* lowercase, and turn each run of spaces and hyphens into one hyphen.
Lower(c) == CASE c = "C" -> "c" [] c = "D" -> "d" [] OTHER -> c
IsSep(c) == c \in {" ", "-"}
Keep(c) == c # "+"
RECURSIVE Hyphenate(_)
Hyphenate(s) ==
    IF s = <<>> THEN <<>>
    ELSE IF IsSep(Head(s))
         THEN IF Tail(s) # <<>> /\ IsSep(Head(Tail(s)))
              THEN Hyphenate(Tail(s))
              ELSE <<"-">> \o Hyphenate(Tail(s))
         ELSE <<Head(s)>> \o Hyphenate(Tail(s))
Slugify(s) ==
    LET kept == Strip(SelectSeq(s, Keep))
    IN  Hyphenate([i \in 1..Len(kept) |-> Lower(kept[i])])

\* ----------------------------------------------------------------- kinds
\* The Kind table: id, kind (the unique name) and slug (AutoSlugField,
\* populate_from='kind').  Kind 1 is named "2", so its slug reads as a number
\* that is not its id.
KindRow(id, name) == [id |-> id, kind |-> name, slug |-> Slugify(name)]
KindTable == {KindRow(1, <<"2">>), KindRow(2, <<"D", "o", "g">>),
              KindRow(3, <<"C", "a", "t">>)}
KindOf(row) == IF row.kind = Null THEN {} ELSE {k \in KindTable : k.id = row.kind[1]}

\* ------------------------------------------------------------ PetQuerySet
\* A queryset is the set of row ids it selects from table t.
All(t) == DOMAIN t

\* PetQuerySet.actives
\* Variant for the sensitivity check: no filter on active.
actives_unfiltered(t, qs) == qs

actives(t, qs) == {p \in qs : t[p].active = TRUE}

\* PetQuerySet._filter_by_kind
\* Variant for the sensitivity check: the slug is tried whatever the identifier.
filter_by_kind_or_slug(t, qs, kind) ==
    {p \in actives(t, qs) :
        \E k \in KindOf(t[p]) : (IsInt(kind) /\ k.id = IntOf(kind)) \/ k.slug = kind}

filter_by_kind(t, qs, kind) ==
    IF IsInt(kind)
    THEN {p \in actives(t, qs) : \E k \in KindOf(t[p]) : k.id = IntOf(kind)}
    ELSE {p \in actives(t, qs) : \E k \in KindOf(t[p]) : k.slug = kind}

\* PetQuerySet.get_lost_or_found
get_lost_or_found(t, qs, kind) ==
    {p \in filter_by_kind(t, qs, kind) : t[p].status \in {MISSING, FOUND}}

\* PetQuerySet.get_for_adoption_adopted
\* Variant for the sensitivity check: Found in place of Adopted.
get_for_adoption_found(t, qs, kind) ==
    {p \in filter_by_kind(t, qs, kind) : t[p].status \in {FOR_ADOPTION, FOUND}}

get_for_adoption_adopted(t, qs, kind) ==
    {p \in filter_by_kind(t, qs, kind) : t[p].status \in {FOR_ADOPTION, ADOPTED}}

\* PetQuerySet.get_unpublished_pets
get_unpublished_pets(t, qs) == {p \in qs : t[p].published = FALSE}

\* PetQuerySet.get_staled_pets, with settings.DAYS_TO_STALE_REGISTER = days
\* and timezone.now() = clock.  A NULL column fails every comparison.
\* Variant for the sensitivity check: modified__lte in place of modified__lt.
get_staled_pets_lte(t, qs, clock, days) ==
    LET stale_date == clock - days
    IN  {p \in qs : /\ t[p].modified <= stale_date
                    /\ t[p].request_sent = Null
                    /\ t[p].status \in {MISSING, FOR_ADOPTION}}

get_staled_pets(t, qs, clock, days) ==
    LET stale_date == clock - days
    IN  {p \in qs : /\ t[p].modified < stale_date
                    /\ t[p].request_sent = Null
                    /\ t[p].status \in {MISSING, FOR_ADOPTION}}

\* PetQuerySet.get_expired_pets
\* Variant for the sensitivity check: only active pets expire.
get_expired_actives(t, qs, clock, days) ==
    LET expire_date == clock - days
    IN  {p \in actives(t, qs) :
            t[p].request_sent # Null /\ t[p].request_sent[1] < expire_date}

get_expired_pets(t, qs, clock, days) ==
    LET expire_date == clock - days
    IN  {p \in qs : t[p].request_sent # Null /\ t[p].request_sent[1] < expire_date}

\* ------------------------------------------------------------ KindManager
\* Text order of two names: code point order, a proper prefix first.
Code(c) == CHOOSE i \in 1..Len(Alphabet) : Alphabet[i] = c
RECURSIVE TextLess(_, _)
TextLess(a, b) ==
    IF b = <<>> THEN FALSE
    ELSE IF a = <<>> THEN TRUE
    ELSE IF Head(a) = Head(b) THEN TextLess(Tail(a), Tail(b))
    ELSE Code(Head(a)) < Code(Head(b))

\* The rows of kind k that the filter joins: pet__status__in=status,
\* pet__active=True, both on the same joined pet.
Joined(t, k, status) ==
    {p \in DOMAIN t : /\ k \in KindOf(t[p])
                      /\ t[p].status \in status
                      /\ t[p].active = TRUE}

\* order_by('kind') of a set of annotated kinds.
RECURSIVE OrderByKind(_)
OrderByKind(rows) ==
    IF rows = {} THEN <<>>
    ELSE LET first == CHOOSE r \in rows :
                         \A o \in rows \ {r} : TextLess(r.kind, o.kind)
         IN  <<first>> \o OrderByKind(rows \ {first})

\* KindManager.count_pets: one row per kind with a joined pet, annotated with
\* Count('pet') over the joined pets.
\* Variant for the sensitivity check: an outer join, kinds without pets counted 0.
count_pets_outer(t, status) ==
    OrderByKind({[id |-> k.id, kind |-> k.kind, slug |-> k.slug,
                  num_pets |-> Cardinality(Joined(t, k, status))] : k \in KindTable})

count_pets(t, status) ==
    OrderByKind({[id |-> k.id, kind |-> k.kind, slug |-> k.slug,
                  num_pets |-> Cardinality(Joined(t, k, status))] :
                    k \in {j \in KindTable : Joined(t, j, status) # {}}})

\* KindManager.lost_kinds, KindManager.adoption_kinds
lost_kinds(t) == count_pets(t, {MISSING, FOUND})
adoption_kinds(t) == count_pets(t, {FOR_ADOPTION, ADOPTED})

\* ---------------------------------------------------------------- Init
\* A pet is registered on day 0 as Missing or For Adoption, with or without
\* a kind, and no instance is loaded.  published is set outside the
\* lifecycle methods, so a pet starts with either value.
InitStatus == {MISSING, FOR_ADOPTION}
InitKinds == {Null, Some(1), Some(2)}

Init ==
    /\ now = 0
    /\ db \in {[p \in Pets |-> NewPet(p, k, s, pub, 0)] :
                  k \in InitKinds, s \in InitStatus, pub \in BOOLEAN}
    /\ mem = [h \in Insts |-> NoInst]
    /\ hist = NoCall
    /\ res = NoQuery
    /\ pc = [h \in Insts |-> "idle"]

\* -------------------------------------------------------------- actions
\* Time passes.
Tick ==
    /\ now < MaxTime
    /\ now' = now + 1
    /\ hist' = Call("tick", NoPet, NoPet, TRUE, <<>>)
    /\ UNCHANGED <<db, mem, res, pc>>

\* A request handler fetches the pet: Pet.objects.get(...).
Load(h, p) ==
    /\ mem' = [mem EXCEPT ![h] = FromDb(p, db[p])]
    /\ hist' = Call("load", h, p, TRUE, <<>>)
    /\ UNCHANGED <<now, db, res, pc>>

\* Pet.change_status
\* Variant for the sensitivity check: Found goes back to Missing.
ChangedStatusToggling(m) ==
    [m EXCEPT !.status = CASE m.status = MISSING -> FOUND
                           [] m.status = FOUND -> MISSING
                           [] OTHER -> ADOPTED]

ChangedStatus(m) ==
    [m EXCEPT !.status = IF m.status = MISSING THEN FOUND ELSE ADOPTED]

ChangeStatus(h) ==
    /\ Loaded(h)
    /\ LET m == Saved(ChangedStatus(mem[h]), FALSE, now)
       IN  /\ mem' = [mem EXCEPT ![h] = m]
           /\ db' = [db EXCEPT ![m.pet] = RowOf(m)]
           /\ hist' = Call("change_status", h, m.pet, TRUE, <<"status", "save">>)
    /\ UNCHANGED <<now, res, pc>>

\* Pet.request_action; sent is the answer of
\* services.send_request_action_email(self).
WithKey(m, seed) == [m EXCEPT !.request_key = Sha1Hex(seed, m.name)]

\* if not services.send_request_action_email(self): return
\* Variant for the sensitivity check: the early return is missing.
RequestProceedsAnyway(sent) == TRUE

RequestProceeds(sent) == sent

\* Variant for the sensitivity check: save() without update_modified=False.
RequestedTouching(m, t) == Saved([m EXCEPT !.request_sent = Some(t)], FALSE, t)

Requested(m, t) == Saved([m EXCEPT !.request_sent = Some(t)], TRUE, t)

RequestTrace(sent) ==
    IF sent THEN <<"request_key", "email", "request_sent", "save">>
            ELSE <<"request_key", "email">>

RequestAction(h, seed, sent) ==
    /\ Loaded(h)
    /\ LET keyed == WithKey(mem[h], seed)
           m == IF RequestProceeds(sent) THEN Requested(keyed, now) ELSE keyed
       IN  /\ mem' = [mem EXCEPT ![h] = m]
           /\ db' = IF RequestProceeds(sent)
                    THEN [db EXCEPT ![m.pet] = RowOf(m)] ELSE db
           /\ hist' = Call("request_action", h, m.pet, sent, RequestTrace(sent))
    /\ UNCHANGED <<now, res, pc>>

\* Pet.activate
\* Variant for the sensitivity check: request_sent is not cleared.
ActivatedKeepingRequest(m) == [m EXCEPT !.request_key = NoKey, !.active = TRUE]

\* Variant for the sensitivity check: the pet is also put back to Missing.
ActivatedReopening(m) ==
    [m EXCEPT !.request_sent = Null, !.request_key = NoKey, !.active = TRUE,
              !.status = MISSING]

\* Variant for the sensitivity check: request_key is not cleared.
ActivatedKeepingKey(m) == [m EXCEPT !.request_sent = Null, !.active = TRUE]

Activated(m) ==
    [m EXCEPT !.request_sent = Null, !.request_key = NoKey, !.active = TRUE]

Activate(h) ==
    /\ Loaded(h)
    /\ LET m == Saved(Activated(mem[h]), FALSE, now)
       IN  /\ mem' = [mem EXCEPT ![h] = m]
           /\ db' = [db EXCEPT ![m.pet] = RowOf(m)]
           /\ hist' = Call("activate", h, m.pet, TRUE,
                           <<"request_sent", "request_key", "active", "save">>)
    /\ UNCHANGED <<now, res, pc>>

\* Pet.deactivate; sent is the answer of services.send_deactivate_email(self).
\* if not services.send_deactivate_email(self): return
\* Variant for the sensitivity check: the early return is missing.
DeactivateProceedsAnyway(sent) == TRUE

DeactivateProceeds(sent) == sent

\* Variant for the sensitivity check: save() without update_modified=False.
DeactivatedTouching(m, t) == Saved([m EXCEPT !.active = FALSE], FALSE, t)

Deactivated(m, t) == Saved([m EXCEPT !.active = FALSE], TRUE, t)

DeactivateTrace(sent) ==
    IF sent THEN <<"email", "active", "save">> ELSE <<"email">>

Deactivate(h, sent) ==
    /\ Loaded(h)
    /\ LET m == IF DeactivateProceeds(sent) THEN Deactivated(mem[h], now) ELSE mem[h]
       IN  /\ mem' = [mem EXCEPT ![h] = m]
           /\ db' = IF DeactivateProceeds(sent)
                    THEN [db EXCEPT ![m.pet] = RowOf(m)] ELSE db
           /\ hist' = Call("deactivate", h, m.pet, sent, DeactivateTrace(sent))
    /\ UNCHANGED <<now, res, pc>>

Next ==
    \/ Tick
    \/ \E h \in Insts, p \in Pets : Load(h, p)
    \/ \E h \in Insts : ChangeStatus(h)
    \/ \E h \in Insts, seed \in Seeds, sent \in BOOLEAN : RequestAction(h, seed, sent)
    \/ \E h \in Insts : Activate(h)
    \/ \E h \in Insts, sent \in BOOLEAN : Deactivate(h, sent)

Spec == Init /\ [][Next]_vars

\* ------------------------------------------------------- the query layer
\* The queries run over a table of two pets in any of the conditions the
\* lifecycle produces: any status, active or not, with or without a pending
\* request, modified on different days, of the same kind or not.
PoolPets == {"q1", "q2"}
KindIdents == {<<"1">>, <<"2">>, <<"0", "3">>, <<" ", "2">>, <<"7">>,
               <<"d", "o", "g">>, <<"D", "o", "g">>, <<"c", "a", "t">>}
StaleDays == 0..MaxStale

PoolRow(name, kind, status, published, sent, active, modified) ==
    [name |-> name, kind |-> kind, status |-> status, published |-> published,
     request_sent |-> sent,
     request_key |-> IF sent = Null THEN NoKey ELSE Sha1Hex("s1", name),
     active |-> active, modified |-> modified]

\* q1 takes every kind-status-active combination and the three request and
\* modification histories; q2 varies what q1 does not (published, kind 3).
PoolTimes == {<<Null, 0>>, <<Null, 1>>, <<Some(0), 0>>}

PoolRows(name) ==
    IF name = "q1"
    THEN {PoolRow(name, k, s, FALSE, rm[1], a, rm[2]) :
             k \in {Null, Some(1), Some(2)}, s \in PET_STATUS,
             a \in BOOLEAN, rm \in PoolTimes}
    ELSE {PoolRow(name, k, s, pub, Null, a, 0) :
             k \in {Some(2), Some(3)}, s \in {MISSING, ADOPTED},
             pub \in BOOLEAN, a \in BOOLEAN}

InitQ ==
    /\ now = MaxTime
    /\ db \in {[p \in PoolPets |-> IF p = "q1" THEN r1 ELSE r2] :
                  r1 \in PoolRows("q1"), r2 \in PoolRows("q2")}
    /\ mem = [h \in Insts |-> NoInst]
    /\ hist = NoCall
    /\ res = NoQuery
    /\ pc = [h \in Insts |-> "idle"]

\* Each query runs over the whole table (Pet.objects, Kind.objects) and
\* changes nothing.
QActives ==
    /\ res' = Query("actives", <<>>, actives(db, All(db)))
    /\ UNCHANGED <<now, db, mem, hist, pc>>

QUnpublished ==
    /\ res' = Query("get_unpublished_pets", <<>>, get_unpublished_pets(db, All(db)))
    /\ UNCHANGED <<now, db, mem, hist, pc>>

QFilterByKind(kind) ==
    /\ res' = Query("_filter_by_kind", kind, filter_by_kind(db, All(db), kind))
    /\ UNCHANGED <<now, db, mem, hist, pc>>

QLostOrFound(kind) ==
    /\ res' = Query("get_lost_or_found", kind, get_lost_or_found(db, All(db), kind))
    /\ UNCHANGED <<now, db, mem, hist, pc>>

QForAdoptionAdopted(kind) ==
    /\ res' = Query("get_for_adoption_adopted", kind,
                    get_for_adoption_adopted(db, All(db), kind))
    /\ UNCHANGED <<now, db, mem, hist, pc>>

QStaled(days) ==
    /\ res' = Query("get_staled_pets", days, get_staled_pets(db, All(db), now, days))
    /\ UNCHANGED <<now, db, mem, hist, pc>>

QExpired(days) ==
    /\ res' = Query("get_expired_pets", days, get_expired_pets(db, All(db), now, days))
    /\ UNCHANGED <<now, db, mem, hist, pc>>

QLostKinds ==
    /\ res' = Query("lost_kinds", <<>>, lost_kinds(db))
    /\ UNCHANGED <<now, db, mem, hist, pc>>

QAdoptionKinds ==
    /\ res' = Query("adoption_kinds", <<>>, adoption_kinds(db))
    /\ UNCHANGED <<now, db, mem, hist, pc>>

NextQ ==
    \/ QActives
    \/ QUnpublished
    \/ \E kind \in KindIdents : QFilterByKind(kind)
    \/ \E kind \in KindIdents : QLostOrFound(kind)
    \/ \E kind \in KindIdents : QForAdoptionAdopted(kind)
    \/ \E days \in StaleDays : QStaled(days)
    \/ \E days \in StaleDays : QExpired(days)
    \/ QLostKinds
    \/ QAdoptionKinds

SpecQ == InitQ /\ [][NextQ]_vars

\* ------------------------------------------- two request_action() racing
\* Two request handlers, each with its own instance of the one pet, run
\* Pet.request_action side by side.  Nothing is locked, so the handlers
\* interleave between statements; only save() touches storage, as one UPDATE.
\* A handler stands at "idle" (nothing loaded), "loaded", "saving" (the
\* notification went out and request_sent is assigned), "saved" (done) or
\* "returned" (done, the notification failed).
RaceInsts == {"h1", "h2"}

InitRace ==
    /\ now = 0
    /\ db \in {[p \in Pets |-> NewPet(p, k, s, pub, 0)] :
                  k \in InitKinds, s \in InitStatus, pub \in BOOLEAN}
    /\ mem = [h \in RaceInsts |-> NoInst]
    /\ hist = NoCall
    /\ res = NoQuery
    /\ pc = [h \in RaceInsts |-> "idle"]

\* Time passes between two statements.
Elapse ==
    /\ now < MaxTime
    /\ now' = now + 1
    /\ UNCHANGED <<db, mem, hist, res, pc>>

\* The handler fetches the pet.
RaceLoad(h, p) ==
    /\ pc[h] = "idle"
    /\ mem' = [mem EXCEPT ![h] = FromDb(p, db[p])]
    /\ pc' = [pc EXCEPT ![h] = "loaded"]
    /\ UNCHANGED <<now, db, hist, res>>

\* self.request_sent = timezone.now()
Stamped(m, t) == [m EXCEPT !.request_sent = Some(t)]

\* Pet.request_action up to save(): the key, the notification, request_sent.
RequestBegin(h, seed, sent) ==
    /\ pc[h] = "loaded"
    /\ LET keyed == WithKey(mem[h], seed)
       IN  IF RequestProceeds(sent)
           THEN /\ mem' = [mem EXCEPT ![h] = Stamped(keyed, now)]
                /\ pc' = [pc EXCEPT ![h] = "saving"]
           ELSE /\ mem' = [mem EXCEPT ![h] = keyed]
                /\ pc' = [pc EXCEPT ![h] = "returned"]
    /\ UNCHANGED <<now, db, hist, res>>

\* self.save(update_modified=False); hist keeps the call that saved last.
RequestSave(h) ==
    /\ pc[h] = "saving"
    /\ LET m == Saved(mem[h], TRUE, now)
       IN  /\ mem' = [mem EXCEPT ![h] = m]
           /\ db' = [db EXCEPT ![m.pet] = RowOf(m)]
           /\ hist' = Call("request_action", h, m.pet, TRUE, RequestTrace(TRUE))
    /\ pc' = [pc EXCEPT ![h] = "saved"]
    /\ UNCHANGED <<now, res>>

NextRace ==
    \/ Elapse
    \/ \E h \in RaceInsts, p \in Pets : RaceLoad(h, p)
    \/ \E h \in RaceInsts, seed \in Seeds, sent \in BOOLEAN : RequestBegin(h, seed, sent)
    \/ \E h \in RaceInsts : RequestSave(h)

SpecRace == InitRace /\ [][NextRace]_vars

\* ------------------------------------------------ two requests interleaved
\* Two requests, each with its own instance of the pet, call the lifecycle
\* methods in any order.  A method runs as one step (one web request, one
\* UPDATE); what interleaves is the loading of an instance and the calls made
\* on it later, so a call may run on an instance loaded before the other
\* request's call was saved.
\* The clock stands still here and every key comes from one seed: neither
\* the timestamps nor the token take part in what happens to the active flag.
ConcSeeds == {"s1"}

InitConc ==
    /\ now = 0
    /\ db \in {[p \in Pets |-> NewPet(p, Null, s, FALSE, 0)] : s \in InitStatus}
    /\ mem = [h \in RaceInsts |-> NoInst]
    /\ hist = NoCall
    /\ res = NoQuery
    /\ pc = [h \in RaceInsts |-> "idle"]

NextConc ==
    \/ \E h \in RaceInsts, p \in Pets : Load(h, p)
    \/ \E h \in RaceInsts : ChangeStatus(h)
    \/ \E h \in RaceInsts, seed \in ConcSeeds, sent \in BOOLEAN : RequestAction(h, seed, sent)
    \/ \E h \in RaceInsts : Activate(h)
    \/ \E h \in RaceInsts, sent \in BOOLEAN : Deactivate(h, sent)

SpecConc == InitConc /\ [][NextConc]_vars

\* ============================================================ properties
\* The handle and the row of the call a step makes, and the columns of a Pet
\* other than request_key.
OtherFields == {"status", "active", "published", "request_sent", "modified"}
Tokens(name) == {Sha1Hex(seed, name) : seed \in Seeds}
FailedCall == hist'.op \in {"request_action", "deactivate"} /\ ~hist'.ok

\* C1 (as claimed): in every reachable state the persisted request_key is
\* non-empty only if the persisted request_sent is set.
C1_KeyOnlyWithRequest ==
    \A p \in DOMAIN db : db[p].request_key # NoKey => db[p].request_sent # Null

\* C2 (as claimed): a request_action() or deactivate() whose notification
\* fails leaves status, active, published, request_sent, request_key and
\* modified of the Pet as they were, and writes nothing to storage.
C2_FailedCallChangesNothing ==
    [][FailedCall =>
          /\ \A f \in OtherFields \cup {"request_key"} :
                 mem'[hist'.h][f] = mem[hist'.h][f]
          /\ db' = db
          /\ "save" \notin {hist'.trace[i] : i \in 1..Len(hist'.trace)}]_vars

\* C2 (amended): a failed request_action() or deactivate() writes nothing to
\* storage and leaves status, active, published, request_sent and modified of
\* the Pet as they were; deactivate() also leaves request_key, while
\* request_action() leaves the newly generated token in the instance's
\* request_key.
C2_FailedCallKeepsAllButKey ==
    [][FailedCall =>
          /\ \A f \in OtherFields : mem'[hist'.h][f] = mem[hist'.h][f]
          /\ hist'.op = "deactivate" =>
                 mem'[hist'.h].request_key = mem[hist'.h].request_key
          /\ hist'.op = "request_action" =>
                 mem'[hist'.h].request_key \in Tokens(mem[hist'.h].name)
          /\ db' = db
          /\ "save" \notin {hist'.trace[i] : i \in 1..Len(hist'.trace)}]_vars

\* C2 witness: a failed request_action() has left a token in the instance
\* that storage does not hold.
C2_Witness ==
    /\ hist.op = "request_action" /\ ~hist.ok
    /\ mem[hist.h].request_key # NoKey
    /\ db[hist.p].request_key = NoKey

ActiveRows(t) == [p \in {x \in DOMAIN t : t[x].active} |-> t[p]]

C4_InactiveExcluded ==
    /\ \A p \in DOMAIN db : ~db[p].active =>
          /\ p \notin actives(db, All(db))
          /\ \A kind \in KindIdents :
                /\ p \notin filter_by_kind(db, All(db), kind)
                /\ p \notin get_lost_or_found(db, All(db), kind)
                /\ p \notin get_for_adoption_adopted(db, All(db), kind)
    /\ \A status \in SUBSET PET_STATUS :
          count_pets(db, status) = count_pets(ActiveRows(db), status)
    /\ lost_kinds(db) = lost_kinds(ActiveRows(db))
    /\ adoption_kinds(db) = adoption_kinds(ActiveRows(db))

\* C4 witness: a deactivate() has succeeded on a pet that has a kind, and the
\* pet is inactive in storage.
C4_Witness ==
    /\ hist.op = "deactivate" /\ hist.ok
    /\ ~db[hist.p].active
    /\ db[hist.p].kind # Null

\* C5: get_lost_or_found returns only Missing and Found pets,
\* get_for_adoption_adopted only For Adoption and Adopted ones, the two
\* results for one kind identifier share no pet, and together they are the
\* result of _filter_by_kind for that identifier.
C5_TracksPartition ==
    res.q \in {"get_lost_or_found", "get_for_adoption_adopted"} =>
        LET lost == IF res.q = "get_lost_or_found" THEN res.out
                    ELSE get_lost_or_found(db, All(db), res.arg)
            adoption == IF res.q = "get_for_adoption_adopted" THEN res.out
                        ELSE get_for_adoption_adopted(db, All(db), res.arg)
        IN  /\ \A p \in lost : db[p].status \in {MISSING, FOUND}
            /\ \A p \in adoption : db[p].status \in {FOR_ADOPTION, ADOPTED}
            /\ lost \cap adoption = {}
            /\ lost \cup adoption = filter_by_kind(db, All(db), res.arg)

\* C5 witness: two active pets of one kind, one on each track, and the query
\* for the lost-and-found track has returned only the one on it.
C5_Witness ==
    /\ res.q = "get_lost_or_found"
    /\ res.out # {}
    /\ get_for_adoption_adopted(db, All(db), res.arg) # {}

\* C6: change_status() sets the status to Found when it was Missing and to
\* Adopted when it was anything else, in the instance and in storage at
\* once; so the status after a call is never Missing, and after a second
\* call in a row it is Adopted.
C6_ChangeStatus ==
    /\ [][hist'.op = "change_status" =>
             LET before == mem[hist'.h].status
                 after == IF before = MISSING THEN FOUND ELSE ADOPTED
             IN  /\ db[hist'.p].status = before
                 /\ mem'[hist'.h].status = after
                 /\ db'[hist'.p].status = after
                 /\ "save" = hist'.trace[Len(hist'.trace)]]_vars
    /\ [](hist.op = "change_status" =>
             /\ db[hist.p].status \in {FOUND, ADOPTED}
             /\ hist.rep => db[hist.p].status = ADOPTED)

\* C6 witness: a second change_status() in a row has left Adopted in storage.
C6_Witness ==
    hist.op = "change_status" /\ hist.rep /\ db[hist.p].status = ADOPTED

\* C7: activate() leaves request_sent null, request_key empty and active true
\* in storage, whatever the state before; a second activate() right after
\* leaves these three columns as the first did; neither call changes status
\* or published.
C7_Activate ==
    /\ [](hist.op = "activate" =>
             /\ db[hist.p].request_sent = Null
             /\ db[hist.p].request_key = NoKey
             /\ db[hist.p].active = TRUE)
    /\ [][hist'.op = "activate" =>
             /\ \A f \in {"status", "published"} :
                    /\ mem'[hist'.h][f] = mem[hist'.h][f]
                    /\ db'[hist'.p][f] = db[hist'.p][f]
             /\ hist'.rep =>
                    \A f \in {"request_sent", "request_key", "active"} :
                        db'[hist'.p][f] = db[hist'.p][f]]_vars

\* C7 witness: a second activate() in a row has run, on a pet that is not in
\* its initial status.
C7_Witness ==
    hist.op = "activate" /\ hist.rep /\ db[hist.p].status \in {FOUND, ADOPTED}

C9_FailedRequest ==
    [][/\ hist'.op = "request_action" /\ ~hist'.ok
       /\ mem[hist'.h].request_sent = Null
       /\ db[hist'.p].request_sent = Null
       =>
          /\ mem'[hist'.h].request_sent = Null
          /\ db'[hist'.p].request_sent = Null
          /\ mem'[hist'.h].request_key # NoKey
          /\ mem'[hist'.h].request_key \in Tokens(mem[hist'.h].name)
          /\ db'[hist'.p].request_key = db[hist'.p].request_key
          /\ db'[hist'.p].request_sent = db[hist'.p].request_sent]_vars

\* C9 witness: a first request_action() on a pet with no pending request has
\* failed; the instance holds a token and storage holds neither token nor
\* request_sent.
C9_Witness ==
    /\ hist.op = "request_action" /\ ~hist.ok /\ ~hist.rep
    /\ mem[hist.h].request_sent = Null
    /\ mem[hist.h].request_key # NoKey
    /\ db[hist.p].request_sent = Null
    /\ db[hist.p].request_key = NoKey

\* C10: a request_action() whose notification succeeds stores a newly
\* generated non-empty request_key and request_sent = now and saves both;
\* modified, status, active and published are unchanged, in the instance and
\* in storage; the notification comes before request_sent is written.
Position(trace, e) == CHOOSE i \in 1..Len(trace) : trace[i] = e

C10_RequestFrame ==
    [][hist'.op = "request_action" /\ hist'.ok =>
          /\ mem'[hist'.h].request_key # NoKey
          /\ mem'[hist'.h].request_key \in Tokens(mem[hist'.h].name)
          /\ mem'[hist'.h].request_sent = Some(now)
          /\ db'[hist'.p].request_key = mem'[hist'.h].request_key
          /\ db'[hist'.p].request_sent = Some(now)
          /\ \A f \in {"modified", "status", "active", "published"} :
                /\ mem'[hist'.h][f] = mem[hist'.h][f]
                /\ db'[hist'.p][f] = db[hist'.p][f]
          /\ Position(hist'.trace, "email") < Position(hist'.trace, "request_sent")
          /\ Position(hist'.trace, "request_sent") < Position(hist'.trace, "save")]_vars

\* C10 witness: a request_action() has succeeded on a day after the pet was
\* last modified, replacing the token of an earlier request.
C10_Witness ==
    /\ hist.op = "request_action" /\ hist.ok /\ hist.rep
    /\ db[hist.p].request_sent = Some(now)
    /\ db[hist.p].request_key # NoKey
    /\ db[hist.p].modified < now

\* C11: the stored request_sent is null for a pet as created; a step makes it
\* non-null only if it is a request_action() whose notification succeeded;
\* and it is null after every activate().
C11_RequestSentWindow ==
    /\ [](hist.op = "none" => \A p \in DOMAIN db : db[p].request_sent = Null)
    /\ [][\A p \in DOMAIN db :
             db[p].request_sent = Null /\ db'[p].request_sent # Null =>
                 hist'.op = "request_action" /\ hist'.ok /\ hist'.p = p]_vars
    /\ [][\A p \in DOMAIN db :
             db[p].request_sent # Null /\ db'[p].request_sent = Null =>
                 hist'.op = "activate" /\ hist'.p = p]_vars
    /\ [](hist.op = "activate" => db[hist.p].request_sent = Null)

\* C11 witness: an activate() has closed a request that was stored as sent.
C11_Witness ==
    /\ hist.op = "activate" /\ ~hist.rep
    /\ db[hist.p].request_sent = Null
    /\ mem[hist.h].update_modified = FALSE
    /\ db[hist.p].active

\* C12: _filter_by_kind returns active pets only; when the identifier parses
\* as an integer it returns those whose kind has that id, whatever the slugs,
\* and otherwise those whose kind has that slug, whatever the ids; so a pet
\* whose kind has a digit-string slug is not found by that slug unless the
\* kind's id is the parsed number.
C12_IdOrSlug ==
    res.q = "_filter_by_kind" =>
        /\ \A p \in res.out : db[p].active
        /\ IsInt(res.arg) =>
              res.out = {p \in DOMAIN db :
                            /\ db[p].active /\ db[p].kind # Null
                            /\ db[p].kind[1] = IntOf(res.arg)}
        /\ ~IsInt(res.arg) =>
              res.out = {p \in DOMAIN db :
                            /\ db[p].active /\ db[p].kind # Null
                            /\ \E k \in KindTable :
                                  k.id = db[p].kind[1] /\ k.slug = res.arg}
        /\ \A p \in DOMAIN db, k \in KindTable :
              /\ db[p].kind = Some(k.id) /\ k.slug = res.arg
              /\ IsInt(res.arg) /\ k.id # IntOf(res.arg)
              => p \notin res.out

\* C12 witness: the identifier "2" has found the active pet of kind 2 and not
\* the active pet of kind 1, whose slug is "2".
C12_Witness ==
    /\ res.q = "_filter_by_kind" /\ res.arg = <<"2">>
    /\ res.out = {"q2"}
    /\ db["q1"].active /\ db["q1"].kind = Some(1)

\* C13: actives returns exactly the pets with active true;
\* get_unpublished_pets returns exactly the pets with published false, and
\* get_expired_pets exactly the pets whose request_sent is set and before
\* now - days, both whether the pet is active or not.
C13_ActiveOnlyInActives ==
    /\ res.q = "actives" => res.out = {p \in DOMAIN db : db[p].active}
    /\ res.q = "get_unpublished_pets" =>
           res.out = {p \in DOMAIN db : ~db[p].published}
    /\ res.q = "get_expired_pets" =>
           res.out = {p \in DOMAIN db :
                         /\ db[p].request_sent # Null
                         /\ db[p].request_sent[1] < now - res.arg}

\* C13 witness: get_expired_pets has returned an inactive pet.
C13_Witness ==
    /\ res.q = "get_expired_pets"
    /\ \E p \in res.out : ~db[p].active
    /\ \E p \in DOMAIN db : ~db[p].active /\ ~db[p].published

\* C14: for every status set, count_pets has one entry per kind that has an
\* active pet with a status in the set and none for any other kind; an
\* entry's num_pets is the number of active pets of that kind with a status
\* in the set; the entries come in the order of the kinds' kind column (the
\* name, which is neither the order of the ids nor that of the table); and
\* an active pet that has a kind is counted by exactly one of lost_kinds and
\* adoption_kinds.
Counted(t, kindId, status) ==
    {p \in DOMAIN t : /\ t[p].active /\ t[p].kind = Some(kindId)
                      /\ t[p].status \in status}
Entries(counts) == {counts[i] : i \in 1..Len(counts)}
RECURSIVE Total(_)
Total(counts) ==
    IF counts = <<>> THEN 0 ELSE Head(counts).num_pets + Total(Tail(counts))

PairOf(row) == <<row.request_key, row.request_sent>>
BothSaved == \A h \in RaceInsts : pc[h] = "saved"

C15_LastWriteWins ==
    BothSaved =>
        \A p \in DOMAIN db :
            /\ PairOf(db[p]) = PairOf(mem[hist.h])
            /\ PairOf(db[p]) \in {PairOf(mem[h]) : h \in RaceInsts}

\* C15 witness: both calls have saved, with different keys, and the call
\* that saved last had assigned its request_sent the day before the other
\* did: storage holds the older request_sent with the key that goes with it.
C15_Witness ==
    /\ BothSaved
    /\ \E o \in RaceInsts \ {hist.h} :
          /\ mem[o].request_key # mem[hist.h].request_key
          /\ mem[hist.h].request_sent[1] < mem[o].request_sent[1]
          /\ db[hist.p].request_sent = mem[hist.h].request_sent

\* C16: over any sequence of change_status(), request_action(), activate()
\* and deactivate() calls the status, stored and in the instance, changes
\* only in change_status(); a status of Found or Adopted never becomes
\* Missing or For adoption again; Adopted stays Adopted; and since the first
\* change_status() leaves Missing for good and every change_status() from
\* another status than Missing gives Adopted, the status is Adopted from the
\* second change_status() on, whatever it was at the start.
Closed == {FOUND, ADOPTED}

C16_StatusOnlyForward ==
    /\ [][\A p \in DOMAIN db :
            db'[p].status # db[p].status =>
                hist'.op = "change_status" /\ hist'.p = p]_vars
    /\ [][\A h \in DOMAIN mem :
            Loaded(h) /\ mem'[h].status # mem[h].status =>
                hist'.op = "change_status" /\ hist'.h = h]_vars
    /\ [][\A p \in DOMAIN db :
            /\ db[p].status \in Closed => db'[p].status \in Closed
            /\ db[p].status = ADOPTED => db'[p].status = ADOPTED
            /\ db[p].status # MISSING => db'[p].status # MISSING
            /\ db[p].status # FOUND /\ db'[p].status = FOUND =>
                   db[p].status = MISSING]_vars
    /\ [][hist'.op = "change_status" =>
            /\ db'[hist'.p].status # MISSING
            /\ db[hist'.p].status # MISSING => db'[hist'.p].status = ADOPTED]_vars

\* C16 witness: an activate() has run on a pet that was Found, and the pet
\* is still Found: reopening the registration did not reopen the status.
C16_Witness ==
    /\ hist.op = "activate" /\ ~hist.rep
    /\ db[hist.p].status = FOUND /\ db[hist.p].active

\* C17: the stored active flag becomes false only in a deactivate() whose
\* notification succeeded and true again only in an activate();
\* change_status() and request_action() never change it, also when two
\* requests interleave, each with an instance it loaded earlier.
C17_ActiveOnlyByActivateDeactivate ==
    [][\A p \in DOMAIN db :
          /\ db[p].active /\ ~db'[p].active =>
                 hist'.op = "deactivate" /\ hist'.ok /\ hist'.p = p
          /\ ~db[p].active /\ db'[p].active =>
                 hist'.op = "activate" /\ hist'.p = p
          /\ hist'.op \in {"change_status", "request_action"} /\ hist'.p = p =>
                 db'[p].active = db[p].active]_vars

\* C18: with the same clock and the same DAYS_TO_STALE_REGISTER no pet is
\* both in get_staled_pets and in get_expired_pets, in any reachable state;
\* right after a request_action() whose notification succeeded the pet is
\* not stale, and not expired when the setting is at least one day; right
\* after an activate() the pet is neither stale nor expired.
StaleNow(days) == get_staled_pets(db, All(db), now, days)
ExpiredNow(days) == get_expired_pets(db, All(db), now, days)

C18_StaleExpiredApart ==
    \A days \in StaleDays :
        /\ StaleNow(days) \cap ExpiredNow(days) = {}
        /\ hist.op = "request_action" /\ hist.ok =>
               /\ hist.p \notin StaleNow(days)
               /\ days >= 1 => hist.p \notin ExpiredNow(days)
        /\ hist.op = "activate" =>
               hist.p \notin StaleNow(days) \cup ExpiredNow(days)

====
